---- MODULE Spec2Model ----
(***************************************************************************)
(* A model of src/src/EntityREST.js: the express middleware built by       *)
(* EntityREST.express and the endpoint functions it drives (getOne,        *)
(* getMany, postOne, putOne, patchOne, patchMany, deleteOne).              *)
(*                                                                         *)
(* One request is followed from the moment the middleware receives it to   *)
(* the call of next.  Every call the code makes on a collaborator (the     *)
(* endpoint specification, the Entity container, respond, next) is         *)
(* appended to `calls` in the order the code makes it; what a collaborator *)
(* answers (a value, a thrown error, a rejected promise) is chosen         *)
(* nondeterministically at the call.                                       *)
(***************************************************************************)
EXTENDS Integers, Sequences, FiniteSets, TLC

\* Largest number of records Entity.find hands to patchMany / getMany.
MaxMatched == 2
\* Largest number of keys of a request body object.
MaxBodyKeys == 2

(***************************************************************************)
(* JavaScript values.  An object is a function from its own keys to        *)
(* strings; `undefined` as a property value and the value null are         *)
(* sentinels.                                                              *)
(***************************************************************************)
Undefined == "#undefined"
Null == [k \in {"#null"} |-> "#null"]
EmptyObject == [k \in {} |-> Undefined]

IsObject(x) == "#null" \notin DOMAIN x

\* { ...a, ...b }
Spread(a, b) ==
    [k \in DOMAIN a \cup DOMAIN b |-> IF k \in DOMAIN b THEN b[k] ELSE a[k]]

\* _.omitBy(_.isUndefined, o)
OmitUndefined(o) == [k \in {x \in DOMAIN o : o[x] # Undefined} |-> o[k]]

\* o[k], undefined when o has no such key
Get(o, k) == IF k \in DOMAIN o THEN o[k] ELSE Undefined

Keys == {"id", "name", "locked", "_embedded", "_links"}

\* All objects over the keys ks with property values in vs and at most n keys.
ObjectsOver(ks, vs, n) ==
    UNION {[d -> vs] : d \in {s \in SUBSET ks : Cardinality(s) <= n}}

(***************************************************************************)
(* Errors: the properties the code reads or copies (message, details,      *)
(* status) and `origin`, which tells one error object from another: the    *)
(* place that constructed it.  A status of 0 stands for no status.         *)
(***************************************************************************)
Err(message, details, status, origin) ==
    [message |-> message, details |-> details, status |-> status, origin |-> origin]

NoError == Err("", "", 0, "none")


(***************************************************************************)
(* The collaborators the code calls, each by its contract.                 *)
(***************************************************************************)
\* The persistence backend behind Entity.findById / Entity.find: the stored
\* records in storage order.  Record 43 has no `locked` property.
StoredIds == <<"42", "43", "44", "45">>

StoredRecord(id) ==
    IF id = "43"
    THEN [k \in {"id", "name"} |-> IF k = "id" THEN id ELSE "a"]
    ELSE [k \in {"id", "name", "locked"} |-> IF k = "id" THEN id ELSE "a"]

IsStored(id) == \E i \in 1..Len(StoredIds) : StoredIds[i] = id

\* Entity.findById(id): the record, or null when there is none
FindById(id) == IF IsStored(id) THEN StoredRecord(id) ELSE Null

\* Entity.find(...) matching the first n stored records
Found(n) == [i \in 1..n |-> StoredRecord(StoredIds[i])]

\* The properties the schema marks readOnly.
ReadOnly == {"locked"}

\* Entity.resetReadOnly(incoming, existing): incoming, with every read-only
\* property forced back to its value in existing (omitted if absent there).
ResetReadOnly(incoming, existing) ==
    [k \in (DOMAIN incoming \ ReadOnly) \cup (ReadOnly \cap DOMAIN existing) |->
        IF k \in ReadOnly THEN existing[k] ELSE incoming[k]]

\* Entity.exportOne(entity) when the container has one: it marks what it exports.
EntityExportOne(entity) ==
    IF IsObject(entity) THEN Spread(entity, [k \in {"exported"} |-> "yes"]) ELSE entity

\* Entity.createOne(props): the stored record, with the id storage assigns
CreateOne(props) == Spread(props, [k \in {"id"} |-> "new"])

\* Entity.updateOne(props): the stored record with props laid over it
UpdateOne(props) ==
    IF IsStored(Get(props, "id")) THEN Spread(StoredRecord(props["id"]), props) ELSE props

\* Entity.replaceOne(props): the stored record is props
ReplaceOne(props) == props

(***************************************************************************)
(* fast-json-patch.  An operation is [op, path, value] on a top-level      *)
(* property.  validate applies the patch to a deep clone with every        *)
(* operation validated and returns the first error (or undefined);         *)
(* applyPatch applies the operations without validating them, to the       *)
(* document it is given.                                                   *)
(***************************************************************************)
PatchOperation(op, path, value) == [op |-> op, path |-> path, value |-> value]

\* one operation applied by objOps[operation.op]
ApplyOperation(doc, o) ==
    CASE o.op = "replace" -> Spread(doc, [k \in {o.path} |-> o.value])
      [] o.op = "remove"  -> [k \in DOMAIN doc \ {o.path} |-> doc[k]]
      [] OTHER            -> doc

\* the `test` operation fails: applyOperation throws TEST_OPERATION_FAILED
TestFails(doc, o) == o.op = "test" /\ Get(doc, o.path) # o.value

\* what the validator refuses on top of that: OPERATION_PATH_UNRESOLVABLE
PathUnresolvable(doc, o) == o.op \in {"replace", "remove", "test"} /\ o.path \notin DOMAIN doc

RECURSIVE ApplyPatchFrom(_, _, _)
\* jsonPatch.applyPatch(doc, ops): [threw, newDocument] from operation i on
ApplyPatchFrom(doc, ops, i) ==
    IF i > Len(ops) THEN [threw |-> FALSE, newDocument |-> doc]
    ELSE IF TestFails(doc, ops[i]) THEN [threw |-> TRUE, newDocument |-> doc]
    ELSE ApplyPatchFrom(ApplyOperation(doc, ops[i]), ops, i + 1)

ApplyPatch(doc, ops) == ApplyPatchFrom(doc, ops, 1)

RECURSIVE ValidateFrom(_, _, _)
\* jsonPatch.validate(ops, doc): TRUE when it returns a JsonPatchError
ValidateFrom(doc, ops, i) ==
    IF i > Len(ops) THEN FALSE
    ELSE IF PathUnresolvable(doc, ops[i]) \/ TestFails(doc, ops[i]) THEN TRUE
    ELSE ValidateFrom(ApplyOperation(doc, ops[i]), ops, i + 1)

ValidateReportsError(ops, doc) == ValidateFrom(doc, ops, 1)

\* applyPatch's mutateDocument parameter, which the code leaves at its default:
\* the operations are applied to the document passed in, not to a copy.
MutateDocument == TRUE

(***************************************************************************)
(* Query strings.  A query value is a string, written as the sequence of   *)
(* its characters, so that parseInt and the regular expressions of the     *)
(* code can be computed on it; NoValue is a key whose value is undefined.  *)
(***************************************************************************)
NoValue == <<Undefined>>

\* JavaScript truthiness of a query value: not undefined, not ''
Truthy(v) == v # NoValue /\ v # <<>>

\* a number, or NaN
Num(n) == [nan |-> FALSE, value |-> n]
NaN == [nan |-> TRUE, value |-> 0]

DigitChars == <<"0", "1", "2", "3", "4", "5", "6", "7", "8", "9">>
IsDigit(c) == \E d \in 1..10 : DigitChars[d] = c
DigitValue(c) == (CHOOSE d \in 1..10 : DigitChars[d] = c) - 1
WhiteSpace == {" ", "\t", "\n", "\r"}
LineTerminators == {"\n", "\r"}

RECURSIVE ParseDigits(_, _, _)
\* the value of the run of decimal digits of v that starts at i, after acc
ParseDigits(v, i, acc) ==
    IF i > Len(v) \/ ~IsDigit(v[i]) THEN acc
    ELSE ParseDigits(v, i + 1, 10 * acc + DigitValue(v[i]))

RECURSIVE SkipWhiteSpace(_, _)
SkipWhiteSpace(v, i) ==
    IF i <= Len(v) /\ v[i] \in WhiteSpace THEN SkipWhiteSpace(v, i + 1) ELSE i

\* parseInt(v) of a string v in radix 10: leading white space, an optional sign,
\* then the longest run of digits; NaN when there is no digit
ParseInt(v) ==
    LET s == SkipWhiteSpace(v, 1)
        signed == s <= Len(v) /\ v[s] \in {"-", "+"}
        d == IF signed THEN s + 1 ELSE s
    IN  IF d > Len(v) \/ ~IsDigit(v[d]) THEN NaN
        ELSE Num((IF signed /\ v[s] = "-" THEN -1 ELSE 1) * ParseDigits(v, d, 0))

\* Math.min(a, b)
MathMin(a, b) ==
    IF a.nan \/ b.nan THEN NaN ELSE IF a.value <= b.value THEN a ELSE b

\* the value of key k of the query, undefined when the query has no such key
QueryValue(query, k) == IF k \in DOMAIN query THEN query[k] ELSE NoValue

\* getMany line 186: Math.min(parseInt(request.query.limit || 25), 500)
DefaultLimit == 25
LimitCap == 500
\* Limit, without the cap
LimitUncapped(query) ==
    LET limit == QueryValue(query, "limit")
    IN  IF Truthy(limit) THEN ParseInt(limit) ELSE Num(DefaultLimit)

Limit(query) ==
    LET limit == QueryValue(query, "limit")
    IN  MathMin(IF Truthy(limit) THEN ParseInt(limit) ELSE Num(DefaultLimit), Num(LimitCap))

\* getMany line 193: parseInt(request.query.offset) || 0
Skip(query) ==
    LET parsed == ParseInt(QueryValue(query, "offset"))
    IN  IF parsed.nan \/ parsed.value = 0 THEN Num(0) ELSE parsed

\* getMany lines 189-190: the sort option, { [field]: direction }
Ascending == 1
Descending == -1
SortBy(field, direction) == [field |-> field, direction |-> direction]
DefaultSort == SortBy(<<"_", "i", "d">>, Ascending)

\* query.sort.match(/^(-?)(.*)$/): `.` matches no line terminator
SortMatches(v) == \A i \in 1..Len(v) : v[i] \notin LineTerminators

\* Sort, with the leading '-' kept in the field name and never descending
SortAscending(query) ==
    LET sort == QueryValue(query, "sort")
    IN  IF Truthy(sort) /\ SortMatches(sort) THEN SortBy(sort, Ascending) ELSE DefaultSort

Sort(query) ==
    LET sort == QueryValue(query, "sort")
    IN  IF Truthy(sort) /\ SortMatches(sort)
        THEN IF sort[1] = "-" THEN SortBy(Tail(sort), Descending) ELSE SortBy(sort, Ascending)
        ELSE DefaultSort

\* the options getMany passes to Entity.find; patchMany passes none
Options(query) == [given |-> TRUE, limit |-> Limit(query), skip |-> Skip(query), sort |-> Sort(query)]
NoOptions == [given |-> FALSE, limit |-> NaN, skip |-> NaN, sort |-> DefaultSort]

(***************************************************************************)
(* filterConditions (lines 108-158).  A condition of the filter is one of: *)
(* { $exists: false }, a boolean, { $in: [new RegExp(pattern, flags)] },   *)
(* or a value compared directly.                                           *)
(***************************************************************************)
ExistsFalse == [kind |-> "$exists", bool |-> FALSE, chars |-> <<>>, flags |-> <<>>]
Boolean(b) == [kind |-> "boolean", bool |-> b, chars |-> <<>>, flags |-> <<>>]
InRegExp(pattern, flags) == [kind |-> "$in", bool |-> FALSE, chars |-> pattern, flags |-> flags]
Direct(v) == [kind |-> "value", bool |-> FALSE, chars |-> v, flags |-> <<>>]

Flags == {"g", "i", "m", "u", "y"}
ReservedKeys == {"limit", "offset", "sort", "q"}

\* the index of the last '/' of v, 0 when it has none
LastSlash(v) ==
    IF \E i \in 1..Len(v) : v[i] = "/"
    THEN CHOOSE i \in 1..Len(v) : v[i] = "/" /\ \A j \in (i + 1)..Len(v) : v[j] # "/"
    ELSE 0

\* line 139: v.match(/^\/(.*)\/(g|i|m|u|y)*$/).  Group 1 is what lies between
\* the first and the last '/'; group 2, a group under `*`, holds what its last
\* repetition matched: the last flag letter, or undefined when there is none.
RegexpSyntax(v) ==
    LET close == LastSlash(v)
        matched == /\ close >= 2
                   /\ v[1] = "/"
                   /\ \A i \in 2..(close - 1) : v[i] \notin LineTerminators
                   /\ \A i \in (close + 1)..Len(v) : v[i] \in Flags
    IN  [matched |-> matched,
         pattern |-> IF matched THEN SubSeq(v, 2, close - 1) ELSE <<>>,
         flags   |-> IF matched /\ close < Len(v) THEN <<v[Len(v)]>> ELSE <<>>]

\* Condition, with 'true' and 'false' compared as the strings they are
ConditionWithoutBooleans(v) ==
    IF v = <<"u", "n", "d", "e", "f", "i", "n", "e", "d">> THEN ExistsFalse
    ELSE IF RegexpSyntax(v).matched
         THEN InRegExp(RegexpSyntax(v).pattern, RegexpSyntax(v).flags)
    ELSE Direct(v)

\* lines 119-156: the condition for a value that is not undefined
Condition(v) ==
    IF v = <<"u", "n", "d", "e", "f", "i", "n", "e", "d">> THEN ExistsFalse
    ELSE IF v = <<"t", "r", "u", "e">> THEN Boolean(TRUE)
    ELSE IF v = <<"f", "a", "l", "s", "e">> THEN Boolean(FALSE)
    ELSE IF RegexpSyntax(v).matched
         THEN InRegExp(RegexpSyntax(v).pattern, RegexpSyntax(v).flags)
    ELSE Direct(v)

\* JSON.parse(text) for the texts {} and {"k":"v"}, k and v one character
\* each; any other text here is not JSON and makes it throw a SyntaxError
ParseJSON(text) ==
    IF text = <<"{", "}">> THEN [threw |-> FALSE, value |-> EmptyObject]
    ELSE IF /\ Len(text) = 9
            /\ <<text[1], text[2], text[4], text[5], text[6], text[8], text[9]>>
                  = <<"{", "\"", "\"", ":", "\"", "\"", "}">>
            /\ text[3] \notin {"\"", "\\"} /\ text[7] \notin {"\"", "\\"}
         THEN [threw |-> FALSE, value |-> [k \in {text[3]} |-> Direct(<<text[7]>>)]]
    ELSE [threw |-> TRUE, value |-> EmptyObject]

\* FilterConditions, with the reserved keys translated like any other key
FilterConditionsOfEveryKey(query) ==
    IF Truthy(QueryValue(query, "q"))
    THEN ParseJSON(query["q"])
    ELSE [threw |-> FALSE,
          value |-> [k \in {x \in DOMAIN query : query[x] # NoValue} |-> Condition(query[k])]]

\* filterConditions(query): [threw, value]
FilterConditions(query) ==
    IF Truthy(QueryValue(query, "q"))
    THEN ParseJSON(query["q"])
    ELSE [threw |-> FALSE,
          value |-> [k \in {x \in DOMAIN query \ ReservedKeys : query[x] # NoValue} |->
                        Condition(query[k])]]

(***************************************************************************)
(* Inputs.                                                                 *)
(***************************************************************************)
Endpoints == {"getOne", "getMany", "postOne", "putOne", "patchOne", "patchMany", "deleteOne"}

\* What express(endpointFunction, spec, Entity) binds at startup: the endpoint
\* function and which optional functions the endpoint specification and the
\* Entity container have.  One the endpoint never consults is left out.
Routes ==
    {r \in [endpoint : Endpoints, authenticate : BOOLEAN, validate : BOOLEAN,
            should : BOOLEAN, did : BOOLEAN, exportOne : BOOLEAN] :
        /\ r.endpoint \in {"getOne", "getMany"} => ~r.should /\ ~r.did
        /\ r.endpoint = "deleteOne" => ~r.exportOne}

\* a route with no optional function other than, possibly, the should* guard
BareRoutes ==
    {r \in Routes : ~r.authenticate /\ ~r.validate /\ ~r.did /\ ~r.exportOne}

\* req.params of a route with an :entityId segment, and of one without
EntityIds == {"42", "43", "99"}

UrlParams(endpoint) ==
    IF endpoint \in {"getOne", "putOne", "patchOne", "deleteOne"}
    THEN {[k \in {"entityId"} |-> id] : id \in EntityIds} \cup {EmptyObject}
    ELSE {EmptyObject}

\* req.body: a JSON object, or a JSON array of patch operations
ObjectBody(o) == [kind |-> "object", object |-> o, operations |-> <<>>]
ArrayBody(ops) == [kind |-> "array", object |-> EmptyObject, operations |-> ops]

PatchOperations ==
    {PatchOperation("replace", f, "b") : f \in {"id", "name", "locked"}}
        \cup {PatchOperation("test", "name", v) : v \in {"a", "b"}}
        \cup {PatchOperation("remove", "locked", "b")}

\* the JSON-Patch bodies: no operation, or one
Patches == {<<>>} \cup {<<o>> : o \in PatchOperations}

\* one body of each shape an endpoint tells apart
PlainBodies(endpoint) ==
    IF endpoint \in {"postOne", "putOne", "patchMany"}
    THEN {ObjectBody([k \in {"name", "locked"} |-> "b"])}
    ELSE IF endpoint = "patchOne"
    THEN {ObjectBody([k \in {"name", "locked"} |-> "b"])} \cup {ArrayBody(ops) : ops \in Patches}
    ELSE {ObjectBody(EmptyObject)}

\* every body of at most MaxBodyKeys keys, and every JSON-Patch body
AllBodies(endpoint) ==
    IF endpoint \in {"postOne", "putOne"}
    THEN {ObjectBody(o) : o \in ObjectsOver(Keys, {"b"}, MaxBodyKeys)}
    ELSE IF endpoint \in {"patchOne", "patchMany"}
    THEN {ObjectBody(o) : o \in ObjectsOver(Keys, {"b"}, MaxBodyKeys)}
            \cup {ArrayBody(ops) : ops \in Patches}
    ELSE {ObjectBody(EmptyObject)}

\* what spec.set(request) may resolve to ({} also stands for a spec without set)
SetResults == ObjectsOver({"id", "locked", "_links"}, {"c", Undefined}, 1)

\* req.query: at most one of the reserved keys and at most one field, `name`
LimitValues == {<<"9", "9", "9", "9">>, <<"5", "0", "1">>, <<"5", "0", "0">>, <<"2">>,
                <<"0">>, <<"-", "1">>, <<"2", "x">>, <<"x">>, <<>>}
OffsetValues == {<<"5">>, <<"0">>, <<"x">>}
SortValues == {<<"-", "a", "g", "e">>, <<"a", "g", "e">>, <<"-">>, <<>>}
QValues == {<<"{", "}">>, <<"{", "\"", "n", "\"", ":", "\"", "a", "\"", "}">>, <<"{">>, <<>>}
FieldValues ==
    {<<"t", "r", "u", "e">>, <<"f", "a", "l", "s", "e">>,
     <<"u", "n", "d", "e", "f", "i", "n", "e", "d">>,
     <<"a">>, <<>>, <<"T", "r", "u", "e">>, <<"/", "a">>,
     <<"/", "a", "/">>, <<"/", "a", "/", "i">>, <<"/", "a", "/", "g", "i">>,
     <<"/", "a", "/", "b", "/", "m">>, <<"/", "a", "/", "x">>, NoValue}

ReservedQueries ==
    {EmptyObject}
        \cup {[k \in {"limit"} |-> v] : v \in LimitValues}
        \cup {[k \in {"offset"} |-> v] : v \in OffsetValues}
        \cup {[k \in {"sort"} |-> v] : v \in SortValues}
        \cup {[k \in {"q"} |-> v] : v \in QValues}

FieldQueries == {EmptyObject} \cup {[k \in {"name"} |-> v] : v \in FieldValues}

\* getMany reads every key; patchMany reads the reserved keys only to skip
\* them, and q; the other endpoints read no key
Queries(endpoint) ==
    CASE endpoint = "getMany" ->
            {Spread(r, f) : r \in ReservedQueries, f \in FieldQueries}
      [] endpoint = "patchMany" ->
            {Spread(r, f) : r \in {x \in ReservedQueries :
                                       \/ DOMAIN x \subseteq {"q"}
                                       \/ x = [k \in {"limit"} |-> <<"2">>]
                                       \/ x = [k \in {"sort"} |-> <<"-">>]},
                            f \in FieldQueries}
      [] OTHER -> {EmptyObject}

\* how the call (spec.query || _.stubObject)(request) may end: the endpoint
\* specification has no query; query returns an object; query returns a promise
QueryResults == {[k \in {"name"} |-> Direct(<<"z">>)], [k \in {"owner"} |-> Direct(<<"z">>)]}

QueryOutcomes ==
    {[ends |-> "absent", value |-> EmptyObject]}
        \cup {[ends |-> "returns", value |-> v] : v \in QueryResults}
        \cup {[ends |-> "promise", value |-> v] : v \in QueryResults \ {EmptyObject}}

\* how a call of spec.authenticate / spec.validate may end
CheckOutcomes == {"returns", "throws", "throwsWithStatus", "rejects"}
\* how a call of a should* hook may end
GuardOutcomes == {"resolves", "throws", "rejects"}
\* how a call of a did* hook may end
NotifyOutcomes == {"returns", "throws", "rejects"}
\* how a call of a storage method may end
StorageOutcomes == {"resolves", "rejects"}

(***************************************************************************)
(* EntityREST.exportHAL (lines 80-101).  A response body is written as a   *)
(* record: a plain object is its properties without _links plus the href   *)
(* of _links.self (empty when it has no _links); a collection envelope is  *)
(* its href, its count and its embedded array; a bare array is its items.  *)
(* A href is the sequence of the strings the template literal joins.       *)
(***************************************************************************)
\* the url exportHAL is curried with, and Entity.pluralName.  A url is the
\* sequence of its parts, each '/' that matters a part of its own.
BaseUrl == <<"http://api">>
PluralName == "widgets"

PlainObject(data, href) ==
    [kind |-> "object", data |-> data, href |-> href, count |-> 0, key |-> "", items |-> <<>>]
Envelope(href, count, key, items) ==
    [kind |-> "envelope", data |-> EmptyObject, href |-> href, count |-> count, key |-> key,
     items |-> items]
BareArray(items) ==
    [kind |-> "array", data |-> EmptyObject, href |-> <<>>, count |-> 0, key |-> "", items |-> items]

\* what a template literal writes for a value
TemplateString(value) == IF value = Undefined THEN "undefined" ELSE value

\* url.slice(-1)
LastCharacter(url) == IF url = <<>> THEN "" ELSE url[Len(url)]

\* lines 94-99: { ...data, _links: { self: { href: `${url}/${Entity.pluralName}/${data.id}` } } }
ExportHALOne(url, pluralName, data) ==
    PlainObject([k \in DOMAIN data \ {"_links"} |-> data[k]],
                url \o <<"/", TemplateString(pluralName), "/", TemplateString(Get(data, "id"))>>)

\* Entity.pluralName || 'data'
PluralNameOrData(pluralName) == IF pluralName = Undefined THEN "data" ELSE pluralName

\* lines 82-91: the collection envelope
ExportHALMany(url, pluralName, data) ==
    Envelope(url \o (IF LastCharacter(url) # "/" THEN <<"/">> ELSE <<>>)
                 \o <<PluralNameOrData(pluralName), "/">>,
             Len(data), PluralNameOrData(pluralName), data)

\* the data exportHAL is given: a single record or an array of records
OneRecord(record) == [kind |-> "object", record |-> record, records |-> <<>>]
ManyRecords(records) == [kind |-> "array", record |-> EmptyObject, records |-> records]

\* lines 80-101: Array.isArray(data) chooses the envelope
ExportHAL(url, pluralName, data) ==
    IF data.kind = "array"
    THEN ExportHALMany(url, pluralName, data.records)
    ELSE ExportHALOne(url, pluralName, data.record)

(***************************************************************************)
(* State.                                                                  *)
(***************************************************************************)
VARIABLES
    route,      \* what express(...) bound: endpoint function, spec, Entity
    bodies,     \* the requests the route is sent: "plain" bodies, "all" bodies,
                \* or plain bodies with every "query"
    pc,         \* where the middleware / endpoint function stands
    request,    \* the request view built from req
    calls,      \* the calls the middleware and the endpoint function made, in order
    local,      \* the endpoint function's constants
    tasks,      \* patchMany: the per-record callbacks handed to Promise.all
    error,      \* the error caught by the middleware's catch clause
    hal         \* a direct call of exportHAL: its arguments and the value it returned

vars == <<route, bodies, pc, request, calls, local, tasks, error, hal>>

\* one entry of `calls`
Call(fn, arg) ==
    [fn |-> fn, arg |-> arg, list |-> <<>>, status |-> 0, outcome |-> "", error |-> NoError,
     filter |-> EmptyObject, options |-> NoOptions]

CallEnding(fn, arg, outcome) == [Call(fn, arg) EXCEPT !.outcome = outcome]

NoLocals ==
    [existingEntity |-> Null, patchedEntity |-> Null, setProps |-> EmptyObject,
     props |-> EmptyObject, entity |-> Null, existingEntities |-> <<>>,
     rejection |-> NoError]

NoRequest == [urlParams |-> EmptyObject, query |-> EmptyObject, body |-> ObjectBody(EmptyObject)]

\* the arguments of a direct call of exportHAL: a url with and without a
\* trailing slash, an Entity with and without a pluralName, a record with
\* and without an id or _links of its own, an array of stored records
Urls == {BaseUrl, BaseUrl \o <<"/">>}
PluralNames == {PluralName, Undefined}
HALData ==
    {OneRecord(record) : record \in ObjectsOver({"id", "name", "_links"}, {"a", "b"}, MaxBodyKeys)}
        \cup {ManyRecords(Found(n)) : n \in 0..MaxMatched}

\* no direct call of exportHAL
NoExport ==
    [url |-> <<>>, pluralName |-> Undefined, data |-> OneRecord(EmptyObject),
     returned |-> BareArray(<<>>)]

Start ==
    /\ pc = "idle"
    /\ hal = NoExport
    /\ request = NoRequest
    /\ calls = <<>>
    /\ local = NoLocals
    /\ tasks = <<>>
    /\ error = NoError

\* every route, each sent the plain bodies
Init == route \in Routes /\ bodies = "plain" /\ Start

\* the bare routes, each sent every body
InitPayload == route \in BareRoutes /\ bodies = "all" /\ Start

\* the bare routes, each sent every query
InitQuery == route \in BareRoutes /\ bodies = "query" /\ Start

\* exportHAL called directly, with every url, pluralName and data
InitHAL ==
    /\ route \in {r \in BareRoutes : r.endpoint = "getOne" /\ ~r.should}
    /\ bodies = "plain"
    /\ pc = "exportHAL"
    /\ hal \in {[NoExport EXCEPT !.url = u, !.pluralName = n, !.data = d] :
                         u \in Urls, n \in PluralNames, d \in HALData}
    /\ request = NoRequest
    /\ calls = <<>>
    /\ local = NoLocals
    /\ tasks = <<>>
    /\ error = NoError

\* a throw (or a rejected awaited promise) inside the middleware's try block
Throw(e) == pc' = "catch" /\ error' = e

Goto(at) == pc' = at /\ error' = error

\* the position at which each endpoint function starts
Entry(endpoint) ==
    CASE endpoint = "getOne"    -> "getOne:findById"
      [] endpoint = "getMany"   -> "getMany:find"
      [] endpoint = "postOne"   -> "postOne:set"
      [] endpoint = "putOne"    -> "putOne:findById"
      [] endpoint = "patchOne"  -> "patchOne:findById"
      [] endpoint = "patchMany" -> "patchMany:find"
      [] OTHER                  -> "deleteOne:findById"

(***************************************************************************)
(* EntityREST.express: the middleware.                                     *)
(***************************************************************************)
\* lines 16-21: the request view
Receive ==
    /\ pc = "idle"
    /\ \E p \in UrlParams(route.endpoint),
          q \in IF bodies = "query" THEN Queries(route.endpoint) ELSE {EmptyObject},
          b \in IF bodies = "all" THEN AllBodies(route.endpoint) ELSE PlainBodies(route.endpoint) :
          request' = [urlParams |-> p, query |-> q, body |-> b]
    /\ pc' = "authenticate"
    /\ UNCHANGED <<hal, route, bodies, calls, local, tasks, error>>

\* the status the middleware gives an authenticate error that carries none
AuthenticateStatus == 401
\* the status the middleware gives a validate error that carries none
ValidateStatus == 400

\* Rethrown, with the details of the error left behind
RethrownWithoutDetails(e, status) ==
    IF e.status # 0 THEN e ELSE Err(e.message, "", status, "express")

\* lines 41-49 / 58-66: what the inner catch rethrows for an error e
Rethrown(e, status) ==
    IF e.status # 0 THEN e ELSE Err(e.message, e.details, status, "express")

\* lines 37-51 and 54-68: one check of the endpoint specification.  The call is
\* not awaited: a check that returns a rejected promise has returned.
Check(fn, present, status, then) ==
    /\ pc = fn
    /\ IF present
       THEN \E o \in CheckOutcomes :
              LET thrown == Err("failed", "why", IF o = "throwsWithStatus" THEN 403 ELSE 0, fn)
              IN  /\ calls' = Append(calls, CallEnding(fn, EmptyObject, o))
                  /\ IF o \in {"throws", "throwsWithStatus"}
                     THEN Throw(Rethrown(thrown, status))
                     ELSE Goto(then)
       ELSE calls' = calls /\ Goto(then)
    /\ UNCHANGED <<hal, route, bodies, request, local, tasks>>

Authenticate == Check("authenticate", route.authenticate, AuthenticateStatus, "validate")

Validate == Check("validate", route.validate, ValidateStatus, "endpoint")

\* line 70: the endpoint function is called
Invoke ==
    /\ pc = "endpoint"
    /\ calls' = Append(calls, Call("endpointFunction", EmptyObject))
    /\ Goto(Entry(route.endpoint))
    /\ UNCHANGED <<hal, route, bodies, request, local, tasks>>

\* line 72: the endpoint function returned; next()
Return ==
    /\ pc = "return"
    /\ calls' = Append(calls, Call("next", EmptyObject))
    /\ Goto("done")
    /\ UNCHANGED <<hal, route, bodies, request, local, tasks>>

\* Catch, with the error swallowed instead of passed to next
CatchAndSwallow ==
    /\ pc = "catch"
    /\ calls' = calls
    /\ Goto("done")
    /\ UNCHANGED <<hal, route, bodies, request, local, tasks>>

\* lines 74-76: next(error)
Catch ==
    /\ pc = "catch"
    /\ calls' = Append(calls, [Call("next", EmptyObject) EXCEPT !.outcome = "error", !.error = error])
    /\ Goto("done")
    /\ UNCHANGED <<hal, route, bodies, request, local, tasks>>

\* lines 22-33: respond(status, data), data an object
Respond(status, data) == [Call("respond", data) EXCEPT !.status = status]

\* lines 22-33: respond(status, data), data an array
RespondList(status, data) ==
    [Call("respond", EmptyObject) EXCEPT !.status = status, !.list = data, !.outcome = "array"]

(***************************************************************************)
(* The steps the endpoint functions share.  Each is the code from one      *)
(* awaited call to the next.                                               *)
(***************************************************************************)
StorageError(fn) == Err("storage failed", "", 0, fn)
NotFound == Err("Resource not found.", "", 404, "Sert.object")
InvalidEntity(id) == Err("Invalid entity properties.", id, 400, "assertValid")
Refused(fn, id) == Err("refused", id, 403, fn)
HookFailed(fn) == Err("hook failed", "", 0, fn)

\* the properties removed from every candidate: _embedded: undefined, _links: undefined
ResponseOnly == [k \in {"_embedded", "_links"} |-> Undefined]

\* Entity.prepareCreate || _.identity, Entity.prepareUpdate || _.identity:
\* the container has neither
Prepare(props) == props

\* CreateProps, without the response-only keys set to undefined and omitted
CreatePropsUnstripped(body, setProps) == Prepare(Spread(body, setProps))

\* postOne lines 225-232: createProps
CreateProps(body, setProps) ==
    OmitUndefined(Prepare(Spread(Spread(body, setProps), ResponseOnly)))

\* the id postOne adds for validation only (line 236)
FakeId == [k \in {"id"} |-> "123456789012345678901234"]

\* UpdateProps, with the body spread as it came instead of reconciled
UpdatePropsUnreconciled(incoming, existing, setProps, id) ==
    OmitUndefined(Prepare(
        Spread(Spread(Spread(incoming, setProps), [k \in {"id"} |-> id]), ResponseOnly)))

\* UpdateProps, with the id laid down first, under the body and set's result
UpdatePropsIdFirst(incoming, existing, setProps, id) ==
    OmitUndefined(Prepare(
        Spread(Spread(Spread([k \in {"id"} |-> id], ResetReadOnly(incoming, existing)),
                      setProps),
               ResponseOnly)))

\* putOne lines 273-283 (patchOne 337-345 and 360-369, patchMany 403-412):
\* replaceProps / updateProps
UpdateProps(incoming, existing, setProps, id) ==
    OmitUndefined(Prepare(
        Spread(Spread(Spread(ResetReadOnly(incoming, existing), setProps),
                      [k \in {"id"} |-> id]),
               ResponseOnly)))

\* (Entity.exportOne || _.identity)(entity)
ExportOne(entity) == IF route.exportOne THEN EntityExportOne(entity) ELSE entity

\* FindExisting, without the Sert.object check
FindExistingUnchecked(at, then) ==
    /\ pc = at
    /\ LET id == Get(request.urlParams, "entityId")
       IN  \E o \in StorageOutcomes :
             /\ calls' = Append(calls, CallEnding("findById", [k \in {"id"} |-> id], o))
             /\ IF o = "rejects" THEN Throw(StorageError("findById")) /\ local' = local
                ELSE Goto(then) /\ local' = [local EXCEPT !.existingEntity = FindById(id)]
    /\ UNCHANGED <<hal, route, bodies, request, tasks>>

\* const existingEntity = await Entity.findById(request.urlParams.entityId);
\* Sert.object(existingEntity, { status: 404, ... })
FindExisting(at, then) ==
    /\ pc = at
    /\ LET id == Get(request.urlParams, "entityId")
           found == FindById(id)
       IN  \E o \in StorageOutcomes :
             /\ calls' = Append(calls, CallEnding("findById", [k \in {"id"} |-> id], o))
             /\ IF o = "rejects" THEN Throw(StorageError("findById")) /\ local' = local
                ELSE IF ~IsObject(found) THEN Throw(NotFound) /\ local' = local
                ELSE Goto(then) /\ local' = [local EXCEPT !.existingEntity = found]
    /\ UNCHANGED <<hal, route, bodies, request, tasks>>

\* const setProps = await (spec.set || _.stubObject)(request);
SetProps(at, then) ==
    /\ pc = at
    /\ \E s \in IF bodies = "query" THEN {EmptyObject} ELSE SetResults :
          /\ calls' = Append(calls, Call("set", s))
          /\ local' = [local EXCEPT !.setProps = s]
    /\ Goto(then)
    /\ UNCHANGED <<hal, route, bodies, request, tasks>>

\* the call of Entity.resetReadOnly(incoming, existing) that building a candidate makes
Reconciling(incoming) == <<Call("resetReadOnly", incoming)>>

\* the candidate is built (making the calls `building`) and
\* Entity.assertValid(validated, { status: 400, ... }) called
AssertValid(at, building, props, validated, then) ==
    /\ pc = at
    /\ local' = [local EXCEPT !.props = props]
    /\ \E valid \in BOOLEAN :
          /\ calls' = Append(calls \o building,
                             CallEnding("assertValid", validated,
                                        IF valid THEN "returns" ELSE "throws"))
          /\ IF valid THEN Goto(then) ELSE Throw(InvalidEntity(""))
    /\ UNCHANGED <<hal, route, bodies, request, tasks>>

\* Entity.shouldX && await Entity.shouldX(arg, request);
Guard(at, fn, arg, then) ==
    /\ pc = at
    /\ IF route.should
       THEN \E o \in GuardOutcomes :
              /\ calls' = Append(calls, CallEnding(fn, arg, o))
              /\ IF o = "resolves" THEN Goto(then) ELSE Throw(Refused(fn, ""))
       ELSE calls' = calls /\ Goto(then)
    /\ UNCHANGED <<hal, route, bodies, request, local, tasks>>

\* Storage, with the storage call left unawaited: the function goes on whatever
\* the call's outcome
StorageUnawaited(at, fn, arg, stored, then) ==
    /\ pc = at
    /\ \E o \in StorageOutcomes :
          /\ calls' = Append(calls, CallEnding(fn, arg, o))
          /\ Goto(then) /\ local' = [local EXCEPT !.entity = stored]
    /\ UNCHANGED <<hal, route, bodies, request, tasks>>

\* const entity = await Entity.createOne / replaceOne / updateOne / deleteOne (arg);
Storage(at, fn, arg, stored, then) ==
    /\ pc = at
    /\ \E o \in StorageOutcomes :
          /\ calls' = Append(calls, CallEnding(fn, arg, o))
          /\ IF o = "resolves"
             THEN Goto(then) /\ local' = [local EXCEPT !.entity = stored]
             ELSE Throw(StorageError(fn)) /\ local' = local
    /\ UNCHANGED <<hal, route, bodies, request, tasks>>

\* respond(status, data); Entity.didX && Entity.didX(arg);  The hook is called
\* inside the endpoint function and not awaited: a throw leaves the function, a
\* rejected promise is dropped.
RespondAndNotify(at, exported, status, data, fn, arg) ==
    /\ pc = at
    /\ LET exporting == IF exported THEN Append(calls, Call("exportOne", local.entity)) ELSE calls
           responded == Append(exporting, Respond(status, data))
       IN  IF route.did
           THEN \E o \in NotifyOutcomes :
                  /\ calls' = Append(responded, CallEnding(fn, arg, o))
                  /\ IF o = "throws" THEN Throw(HookFailed(fn)) ELSE Goto("return")
           ELSE calls' = responded /\ Goto("return")
    /\ UNCHANGED <<hal, route, bodies, request, local, tasks>>

(***************************************************************************)
(* EntityREST.getOne                                                       *)
(***************************************************************************)
\* getOne_findById, with the Sert.object of putOne's line 260 after it
getOne_findByIdOr404 ==
    /\ pc = "getOne:findById"
    /\ LET id == Get(request.urlParams, "entityId")
       IN  IF id = Undefined
           THEN /\ Throw(Err("Entity id is required.", "", 400, "Sert.string"))
                /\ UNCHANGED <<calls, local>>
           ELSE \E o \in StorageOutcomes :
                  /\ calls' = Append(calls, CallEnding("findById", [k \in {"id"} |-> id], o))
                  /\ IF o = "rejects" THEN Throw(StorageError("findById")) /\ local' = local
                     ELSE IF ~IsObject(FindById(id)) THEN Throw(NotFound) /\ local' = local
                     ELSE Goto("getOne:respond") /\ local' = [local EXCEPT !.entity = FindById(id)]
    /\ UNCHANGED <<hal, route, bodies, request, tasks>>

\* lines 168-170
getOne_findById ==
    /\ pc = "getOne:findById"
    /\ LET id == Get(request.urlParams, "entityId")
       IN  IF id = Undefined
           THEN /\ Throw(Err("Entity id is required.", "", 400, "Sert.string"))
                /\ UNCHANGED <<calls, local>>
           ELSE \E o \in StorageOutcomes :
                  /\ calls' = Append(calls, CallEnding("findById", [k \in {"id"} |-> id], o))
                  /\ IF o = "rejects" THEN Throw(StorageError("findById")) /\ local' = local
                     ELSE Goto("getOne:respond") /\ local' = [local EXCEPT !.entity = FindById(id)]
    /\ UNCHANGED <<hal, route, bodies, request, tasks>>

\* lines 172-174
getOne_respond ==
    /\ pc = "getOne:respond"
    /\ calls' = Append(IF route.exportOne THEN Append(calls, Call("exportOne", local.entity)) ELSE calls,
                       Respond(200, ExportOne(local.entity)))
    /\ Goto("return")
    /\ UNCHANGED <<hal, route, bodies, request, local, tasks>>

(***************************************************************************)
(* EntityREST.postOne                                                      *)
(***************************************************************************)
\* line 224
postOne_set == SetProps("postOne:set", "postOne:assertValid")

\* postOne_assertValid, with the validated object kept as createProps
postOne_assertValidKeepingFakeId ==
    LET createProps == Spread(FakeId, CreateProps(request.body.object, local.setProps))
    IN  AssertValid("postOne:assertValid", <<>>, createProps, createProps,
                    "postOne:shouldCreate")

\* lines 225-238
postOne_assertValid ==
    LET createProps == CreateProps(request.body.object, local.setProps)
    IN  AssertValid("postOne:assertValid", <<>>, createProps, Spread(FakeId, createProps),
                    "postOne:shouldCreate")

\* line 240
postOne_shouldCreate ==
    Guard("postOne:shouldCreate", "shouldCreate", local.props, "postOne:createOne")

\* line 242
postOne_createOne ==
    Storage("postOne:createOne", "createOne", local.props, CreateOne(local.props), "postOne:respond")

\* lines 243-247
postOne_respond ==
    RespondAndNotify("postOne:respond", route.exportOne, 201, ExportOne(local.entity),
                     "didCreate", local.entity)

(***************************************************************************)
(* EntityREST.putOne                                                       *)
(***************************************************************************)
\* lines 265-266
putOne_findById == FindExisting("putOne:findById", "putOne:set")

\* line 272
putOne_set == SetProps("putOne:set", "putOne:assertValid")

\* lines 273-285
putOne_assertValid ==
    LET replaceProps == UpdateProps(request.body.object, local.existingEntity, local.setProps,
                                    Get(request.urlParams, "entityId"))
    IN  AssertValid("putOne:assertValid", Reconciling(request.body.object), replaceProps,
                    replaceProps, "putOne:shouldUpdate")

\* line 287
putOne_shouldUpdate ==
    Guard("putOne:shouldUpdate", "shouldUpdate", local.props, "putOne:replaceOne")

\* line 289
putOne_replaceOne ==
    Storage("putOne:replaceOne", "replaceOne", local.props, ReplaceOne(local.props), "putOne:respond")

\* lines 290-294
putOne_respond ==
    RespondAndNotify("putOne:respond", route.exportOne, 200, ExportOne(local.entity),
                     "didUpdate", ExportOne(local.entity))

(***************************************************************************)
(* EntityREST.deleteOne                                                    *)
(***************************************************************************)
\* lines 434-435
deleteOne_findById == FindExisting("deleteOne:findById", "deleteOne:shouldDelete")

\* line 437
deleteOne_shouldDelete ==
    Guard("deleteOne:shouldDelete", "shouldDelete", local.existingEntity, "deleteOne:deleteOne")

\* line 439
deleteOne_deleteOne ==
    Storage("deleteOne:deleteOne", "deleteOne", local.existingEntity, local.existingEntity,
            "deleteOne:respond")

\* lines 441-443
deleteOne_respond ==
    RespondAndNotify("deleteOne:respond", FALSE, 200, EmptyObject, "didDelete", local.existingEntity)

(***************************************************************************)
(* EntityREST.patchOne                                                     *)
(***************************************************************************)
\* line 330: patchErrors > 0, for the JsonPatchError validate returned.  An
\* error object converts to NaN, and NaN > 0 is false.
GreaterThanZero(patchErrors) == FALSE

\* line 330: patchErrors && patchErrors > 0
InvalidPatchDetected(patchErrors) == patchErrors /\ GreaterThanZero(patchErrors)

\* lines 320-323
patchOne_findById ==
    FindExisting("patchOne:findById",
                 IF request.body.kind = "array" THEN "patchOne:applyPatch" ELSE "patchOne:set")

\* lines 328-334: the JSON-Patch branch
patchOne_applyPatch ==
    /\ pc = "patchOne:applyPatch"
    /\ LET ops == request.body.operations
           patchErrors == ValidateReportsError(ops, local.existingEntity)
           applied == ApplyPatch(local.existingEntity, ops)
           validated == Append(calls, CallEnding("jsonPatch.validate", local.existingEntity,
                                                 IF patchErrors THEN "error" ELSE "undefined"))
       IN  IF InvalidPatchDetected(patchErrors)
           THEN calls' = validated /\ local' = local /\ Throw(Err("Invalid patch", "", 0, "patchOne"))
           ELSE /\ calls' = Append(validated,
                                   CallEnding("jsonPatch.applyPatch", local.existingEntity,
                                              IF applied.threw THEN "throws" ELSE "returns"))
                /\ local' = [local EXCEPT
                                !.patchedEntity = applied.newDocument,
                                !.existingEntity = IF MutateDocument THEN applied.newDocument ELSE @]
                /\ IF applied.threw
                   THEN Throw(Err("Test operation failed", "", 0, "jsonPatch"))
                   ELSE Goto("patchOne:set")
    /\ UNCHANGED <<hal, route, bodies, request, tasks>>

\* line 336 / line 359
patchOne_set == SetProps("patchOne:set", "patchOne:assertValid")

\* lines 337-347 / lines 360-371
patchOne_assertValid ==
    LET incoming == IF request.body.kind = "array" THEN local.patchedEntity ELSE request.body.object
        updateProps == UpdateProps(incoming, local.existingEntity, local.setProps,
                                   Get(request.urlParams, "entityId"))
    IN  AssertValid("patchOne:assertValid", Reconciling(incoming), updateProps, updateProps,
                    "patchOne:shouldUpdate")

\* line 349 / line 373
patchOne_shouldUpdate ==
    Guard("patchOne:shouldUpdate", "shouldUpdate", local.props, "patchOne:updateOne")

\* line 351 / line 375
patchOne_updateOne ==
    Storage("patchOne:updateOne", "updateOne", local.props, UpdateOne(local.props), "patchOne:respond")

\* lines 352-356 / lines 376-380
patchOne_respond ==
    RespondAndNotify("patchOne:respond", route.exportOne, 200, ExportOne(local.entity),
                     "didUpdate", ExportOne(local.entity))

(***************************************************************************)
(* EntityREST.getMany                                                      *)
(***************************************************************************)
\* how Entity.find may end: rejected, resolved to null, resolved to n records
FindOutcomes ==
    {[ends |-> e, n |-> 0] : e \in {"rejects", "null"}}
        \cup {[ends |-> "resolves", n |-> k] : k \in 0..MaxMatched}

SyntaxError == Err("Unexpected token", "", 0, "JSON.parse")

\* { ...filterConditions(request.query), ...(spec.query || _.stubObject)(request) }:
\* the call of spec.query is not awaited, and a promise spread into an object
\* literal adds no key to it
Filter(conditions, q) == Spread(conditions, IF q.ends = "returns" THEN q.value ELSE EmptyObject)

\* the call of spec.query that building the filter makes
Querying(q) ==
    IF q.ends = "absent" THEN <<>>
    ELSE <<[CallEnding("query", EmptyObject, q.ends) EXCEPT !.filter = q.value]>>

\* the call Entity.find(filter, options) ending as o says
Find(filter, options, o) ==
    [CallEnding("find", EmptyObject, o.ends) EXCEPT
        !.list = Found(o.n), !.filter = filter, !.options = options]

\* the ways spec.query ends that a family of requests exercises
Exercised(family) ==
    IF family = "query" THEN QueryOutcomes ELSE {q \in QueryOutcomes : q.ends = "absent"}

\* lines 186-198
getMany_find ==
    /\ pc = "getMany:find"
    /\ LET conditions == FilterConditions(request.query)
       IN  IF conditions.threw
           THEN Throw(SyntaxError) /\ UNCHANGED <<calls, local>>
           ELSE \E o \in {f \in FindOutcomes : f.ends # "null"}, q \in Exercised(bodies) :
                  /\ calls' = Append(calls \o Querying(q),
                                     Find(Filter(conditions.value, q), Options(request.query), o))
                  /\ IF o.ends = "rejects"
                     THEN Throw(StorageError("find")) /\ local' = local
                     ELSE /\ Goto("getMany:respond")
                          /\ local' = [local EXCEPT !.existingEntities = Found(o.n)]
    /\ UNCHANGED <<hal, route, bodies, request, tasks>>

\* lines 206-213
getMany_respond ==
    /\ pc = "getMany:respond"
    /\ LET entities == local.existingEntities
           exporting == IF route.exportOne
                        THEN calls \o [i \in 1..Len(entities) |-> Call("exportOne", entities[i])]
                        ELSE calls
       IN  calls' = Append(exporting,
                           RespondList(200, [i \in 1..Len(entities) |-> ExportOne(entities[i])]))
    /\ Goto("return")
    /\ UNCHANGED <<hal, route, bodies, request, local, tasks>>

(***************************************************************************)
(* EntityREST.patchMany                                                    *)
(***************************************************************************)
\* the keys an array has when it is spread into an object: its indices
IndexKey == <<"0", "1", "2", "3">>

\* request.body as resetReadOnly and the spread see it
BodyProperties(body) ==
    IF body.kind = "array"
    THEN [k \in {IndexKey[i] : i \in 1..Len(body.operations)} |-> "[operation]"]
    ELSE body.object

\* lines 392-399
patchMany_find ==
    /\ pc = "patchMany:find"
    /\ LET conditions == FilterConditions(request.query)
       IN  IF conditions.threw
           THEN Throw(SyntaxError) /\ UNCHANGED <<calls, local>>
           ELSE \E o \in FindOutcomes, q \in Exercised(bodies) :
                  LET found == Append(calls \o Querying(q),
                                      Find(Filter(conditions.value, q), NoOptions, o))
                  IN  CASE o.ends = "rejects" ->
                             calls' = found /\ local' = local /\ Throw(StorageError("find"))
                        [] o.ends = "null" ->
                             /\ calls' = Append(found, Respond(200, EmptyObject))
                             /\ local' = local
                             /\ Goto("return")
                        [] OTHER ->
                             /\ calls' = found
                             /\ local' = [local EXCEPT !.existingEntities = Found(o.n)]
                             /\ Goto("patchMany:set")
    /\ UNCHANGED <<hal, route, bodies, request, tasks>>

\* line 401
patchMany_set == SetProps("patchMany:set", "patchMany:map")

\* how a callback's run up to its first await may end
MapOutcomes == {"invalid", "throws", "awaits"}

\* lines 403-417: one callback from its start to its first await
Callback(existingEntity, o) ==
    LET updateProps == UpdateProps(BodyProperties(request.body), existingEntity, local.setProps,
                                   Get(existingEntity, "id"))
        id == Get(existingEntity, "id")
    IN  [existingEntity |-> existingEntity,
         props |-> updateProps,
         entity |-> Null,
         pc |-> IF o # "awaits" THEN "rejected"
                ELSE IF route.should THEN "shouldUpdate" ELSE "updateOne",
         error |-> CASE o = "invalid" -> InvalidEntity(id)
                     [] o = "throws"  -> Refused("shouldUpdate", id)
                     [] OTHER         -> NoError,
         calls |-> Reconciling(BodyProperties(request.body))
                   \o <<CallEnding("assertValid", updateProps,
                                   IF o = "invalid" THEN "throws" ELSE "returns")>>
                   \o (IF o = "invalid" THEN <<>>
                       ELSE IF route.should
                       THEN <<CallEnding("shouldUpdate", updateProps,
                                         IF o = "throws" THEN "throws" ELSE "pending")>>
                       ELSE <<CallEnding("updateOne", updateProps, "pending")>>)]

\* the reason Promise.all rejects with: that of the first callback to reject
FirstRejection(ts) ==
    IF \E i \in 1..Len(ts) : ts[i].pc = "rejected"
    THEN ts[CHOOSE i \in 1..Len(ts) :
                /\ ts[i].pc = "rejected"
                /\ \A j \in 1..(i - 1) : ts[j].pc # "rejected"].error
    ELSE NoError

\* line 402: existingEntities.map(async existingEntity => ...) runs every callback,
\* in order, up to its first await, and Promise.all awaits them
patchMany_map ==
    /\ pc = "patchMany:map"
    /\ LET entities == local.existingEntities
       IN  \E os \in [1..Len(entities) -> IF route.should THEN MapOutcomes ELSE MapOutcomes \ {"throws"}] :
              LET started == [i \in 1..Len(entities) |-> Callback(entities[i], os[i])]
              IN  /\ tasks' = started
                  /\ local' = [local EXCEPT !.rejection = FirstRejection(started)]
    /\ Goto("patchMany:all")
    /\ UNCHANGED <<hal, route, bodies, request, calls>>

\* the call a callback awaits has ended with outcome o
Settled(task, o) == [task EXCEPT !.calls[Len(task.calls)].outcome = o]

Rejected(task, fn) ==
    [Settled(task, "rejects") EXCEPT
        !.pc = "rejected",
        !.error = IF fn = "shouldUpdate" THEN Refused(fn, Get(task.existingEntity, "id"))
                  ELSE Err("storage failed", Get(task.existingEntity, "id"), 0, fn)]

\* a callback rejected: Promise.all rejects unless it has already
Reject(i, fn) ==
    /\ tasks' = [tasks EXCEPT ![i] = Rejected(tasks[i], fn)]
    /\ local' = [local EXCEPT !.rejection = IF @ = NoError THEN Rejected(tasks[i], fn).error ELSE @]

\* line 415: a callback goes on after await Entity.shouldUpdate(updateProps, request)
patchMany_shouldUpdate ==
    /\ \E i \in 1..Len(tasks) :
          /\ tasks[i].pc = "shouldUpdate"
          /\ \/ /\ tasks' = [tasks EXCEPT ![i] =
                      [Settled(tasks[i], "resolves") EXCEPT
                          !.pc = "updateOne",
                          !.calls = Append(@, CallEnding("updateOne", tasks[i].props, "pending"))]]
                /\ local' = local
             \/ Reject(i, "shouldUpdate")
    /\ UNCHANGED <<hal, route, bodies, pc, request, calls, error>>

\* lines 417-418: a callback goes on after await Entity.updateOne(updateProps)
patchMany_updateOne ==
    /\ \E i \in 1..Len(tasks) :
          /\ tasks[i].pc = "updateOne"
          /\ \/ /\ tasks' = [tasks EXCEPT ![i] =
                      [Settled(tasks[i], "resolves") EXCEPT
                          !.pc = "exportOne",
                          !.entity = UpdateOne(tasks[i].props),
                          !.calls = IF route.exportOne
                                    THEN Append(@, Call("exportOne", UpdateOne(tasks[i].props)))
                                    ELSE @]]
                /\ local' = local
             \/ Reject(i, "updateOne")
    /\ UNCHANGED <<hal, route, bodies, pc, request, calls, error>>

\* line 418: a callback returns after await (Entity.exportOne || _.identity)(entity)
patchMany_exportOne ==
    /\ \E i \in 1..Len(tasks) :
          /\ tasks[i].pc = "exportOne"
          /\ tasks' = [tasks EXCEPT ![i].pc = "fulfilled"]
    /\ UNCHANGED <<hal, route, bodies, pc, request, calls, local, error>>

\* line 402: Promise.all rejected; the await throws
patchMany_reject ==
    /\ pc = "patchMany:all"
    /\ local.rejection # NoError
    /\ Throw(local.rejection)
    /\ UNCHANGED <<hal, route, bodies, request, calls, local, tasks>>

\* the didUpdate calls exportEntities.map(Entity.didUpdate) makes when the calls
\* end as os says: it stops at the first call that throws
Notified(exported, os) ==
    LET stop == IF \E i \in 1..Len(os) : os[i] = "throws"
                THEN CHOOSE i \in 1..Len(os) :
                        os[i] = "throws" /\ \A j \in 1..(i - 1) : os[j] # "throws"
                ELSE Len(os)
    IN  [i \in 1..stop |-> CallEnding("didUpdate", exported[i], os[i])]

\* lines 402 and 421-423: Promise.all fulfilled
patchMany_respond ==
    /\ pc = "patchMany:all"
    /\ \A i \in 1..Len(tasks) : tasks[i].pc = "fulfilled"
    /\ LET exportEntities == [i \in 1..Len(tasks) |-> ExportOne(tasks[i].entity)]
           responded == Append(calls, RespondList(200, exportEntities))
       IN  IF route.did
           THEN \E os \in [1..Len(tasks) -> NotifyOutcomes] :
                  /\ calls' = responded \o Notified(exportEntities, os)
                  /\ IF \E i \in 1..Len(os) : os[i] = "throws"
                     THEN Throw(HookFailed("didUpdate"))
                     ELSE Goto("return")
           ELSE calls' = responded /\ Goto("return")
    /\ UNCHANGED <<hal, route, bodies, request, local, tasks>>

(***************************************************************************)
(* The specifications.                                                     *)
(***************************************************************************)
Next ==
    \/ Receive \/ Authenticate \/ Validate \/ Invoke \/ Return \/ Catch
    \/ getOne_findById \/ getOne_respond
    \/ getMany_find \/ getMany_respond
    \/ postOne_set \/ postOne_assertValid \/ postOne_shouldCreate \/ postOne_createOne
    \/ postOne_respond
    \/ putOne_findById \/ putOne_set \/ putOne_assertValid \/ putOne_shouldUpdate
    \/ putOne_replaceOne \/ putOne_respond
    \/ patchOne_findById \/ patchOne_applyPatch \/ patchOne_set \/ patchOne_assertValid
    \/ patchOne_shouldUpdate \/ patchOne_updateOne \/ patchOne_respond
    \/ patchMany_find \/ patchMany_set \/ patchMany_map \/ patchMany_shouldUpdate
    \/ patchMany_updateOne \/ patchMany_exportOne \/ patchMany_reject \/ patchMany_respond
    \/ deleteOne_findById \/ deleteOne_shouldDelete \/ deleteOne_deleteOne
    \/ deleteOne_respond

\* every route, each sent one request with a plain body
Spec == Init /\ [][Next]_vars

\* Spec, with every continuation whose awaited call has ended eventually run:
\* the event loop runs each ready continuation, and the calls the request awaits
\* (authenticate, validate, set, the hooks, the storage methods) all end
SpecLive == Init /\ [][Next]_vars /\ WF_vars(Next)

\* exportHAL(url, Entity, data), called directly
exportHAL_call ==
    /\ pc = "exportHAL"
    /\ hal' = [hal EXCEPT !.returned = ExportHAL(hal.url, hal.pluralName, hal.data)]
    /\ pc' = "exported"
    /\ UNCHANGED <<route, bodies, request, calls, local, tasks, error>>

NextHAL == exportHAL_call

\* exportHAL as a function of its arguments
SpecHAL == InitHAL /\ [][NextHAL]_vars

\* the bare routes, each sent one request with any body
SpecPayload == InitPayload /\ [][Next]_vars

\* the bare routes, each sent one request with any query
SpecQuery == InitQuery /\ [][Next]_vars

(***************************************************************************)
(* The claims.                                                             *)
(***************************************************************************)
Guards == {"shouldCreate", "shouldUpdate", "shouldDelete"}
Mutations == {"createOne", "updateOne", "replaceOne", "deleteOne"}
Notifications == {"didCreate", "didUpdate", "didDelete"}

\* the calls the request has made so far: by the middleware and the endpoint
\* function, and by patchMany's callbacks
MainCalls == {calls[i] : i \in 1..Len(calls)}
TaskCalls == UNION {{tasks[t].calls[i] : i \in 1..Len(tasks[t].calls)} : t \in 1..Len(tasks)}
RequestCalls == MainCalls \cup TaskCalls

\* in the sequence cs, the guard hook is called after a successful assertValid
\* (shouldDelete: after the record was found) and before any mutating call
GuardInOrder(cs) ==
    \A i \in 1..Len(cs) :
        cs[i].fn \in Guards =>
            /\ \E j \in 1..(i - 1) :
                  IF cs[i].fn = "shouldDelete"
                  THEN cs[j].fn = "findById" /\ cs[j].outcome = "resolves"
                  ELSE cs[j].fn = "assertValid" /\ cs[j].outcome = "returns"
            /\ \A j \in 1..(i - 1) : cs[j].fn \notin Mutations

GuardRejected == \E c \in RequestCalls : c.fn \in Guards /\ c.outcome \in {"throws", "rejects"}

\* C1: a should* hook is called only after assertValid succeeded (delete: after
\* the record was found) and before the mutating storage call, and when a guard
\* rejects, the request makes no mutating storage call at all -- in patchMany,
\* for none of the matched records.
C1_GuardRejectionPreventsMutation ==
    /\ GuardInOrder(calls)
    /\ \A t \in 1..Len(tasks) : GuardInOrder(tasks[t].calls)
    /\ GuardRejected => \A c \in RequestCalls : c.fn \notin Mutations

\* C2: next(error) is never called after respond has been called.
C2_NoErrorAfterRespond ==
    \A i \in 1..Len(calls) :
        calls[i].fn = "respond" =>
            \A j \in (i + 1)..Len(calls) : ~(calls[j].fn = "next" /\ calls[j].outcome = "error")

\* the endpoint function is over: it returned or threw
Over == pc \in {"return", "catch", "done"}

\* the status an endpoint answers a success with
SuccessStatus == IF route.endpoint = "postOne" THEN 201 ELSE 200

\* the request's mutating storage calls have all succeeded
MutationSucceeded ==
    IF route.endpoint = "patchMany"
    THEN \A t \in 1..Len(tasks) :
            \E i \in 1..Len(tasks[t].calls) :
                tasks[t].calls[i].fn = "updateOne" /\ tasks[t].calls[i].outcome = "resolves"
    ELSE \E c \in MainCalls : c.fn \in Mutations /\ c.outcome = "resolves"

\* C3: a did* hook is called only after respond was called with the success
\* status and only when the storage mutation succeeded; in patchMany, once the
\* single response is sent, didUpdate is called once for every updated record.
C3_NotifyAfterRespond ==
    /\ \A j \in 1..Len(calls) :
          calls[j].fn \in Notifications =>
              /\ \E i \in 1..(j - 1) : calls[i].fn = "respond" /\ calls[i].status = SuccessStatus
              /\ MutationSucceeded
    /\ (route.endpoint = "patchMany" /\ route.did /\ Over
            /\ \E c \in MainCalls : c.fn = "respond" /\ c.outcome = "array") =>
          /\ Cardinality({i \in 1..Len(calls) : calls[i].fn = "respond"}) = 1
          /\ \A t \in 1..Len(tasks) :
                Cardinality({j \in 1..Len(calls) :
                                /\ calls[j].fn = "didUpdate"
                                /\ calls[j].arg = ExportOne(tasks[t].entity)}) = 1

\* the request is for a record that findById looked for and did not find
RecordNotFound ==
    /\ route.endpoint \in {"putOne", "patchOne", "deleteOne"}
    /\ \E c \in MainCalls : c.fn = "findById" /\ c.outcome = "resolves"
    /\ ~IsObject(FindById(Get(request.urlParams, "entityId")))

\* C4: in putOne, patchOne and deleteOne, when findById finds no record the
\* endpoint fails with an error of status 404, which is what next receives, and
\* set, resetReadOnly, assertValid, the should* guard, the storage mutation,
\* respond and the did* hook are never called.
C4_NotFoundStops ==
    RecordNotFound =>
        /\ \A c \in RequestCalls :
              c.fn \notin {"set", "resetReadOnly", "assertValid", "respond"}
                            \cup Guards \cup Mutations \cup Notifications
        /\ error.status = 404
        /\ pc \in {"catch", "done"}
        /\ pc = "done" => calls[Len(calls)].fn = "next" /\ calls[Len(calls)].error.status = 404

\* C4's case: a delete of an unknown id has been forwarded to next
C4_Witness ==
    /\ RecordNotFound
    /\ route.endpoint = "deleteOne"
    /\ route.should /\ route.did
    /\ pc = "done"

\* the JSON-Patch validator reported an error for the request's patch
ValidatorReportedError ==
    \E c \in MainCalls : c.fn = "jsonPatch.validate" /\ c.outcome = "error"

\* C5: in patchOne with a JSON-Patch body, when the validator reports an error
\* the endpoint fails with the statusless 'Invalid patch' error and updateOne,
\* shouldUpdate and respond are never called.
C5_InvalidPatchStops ==
    (route.endpoint = "patchOne" /\ request.body.kind = "array" /\ ValidatorReportedError) =>
        /\ \A c \in RequestCalls : c.fn \notin {"updateOne", "shouldUpdate", "respond"}
        /\ Over => pc # "return" /\ error.message = "Invalid patch" /\ error.status = 0

\* spec.authenticate or spec.validate failed: it threw, or its promise rejected
CheckFailed ==
    \E c \in MainCalls :
        c.fn \in {"authenticate", "validate"}
            /\ c.outcome \in {"throws", "throwsWithStatus", "rejects"}

\* C8: when authenticate or validate fails, by a throw or by a rejected
\* promise, the endpoint function is never called, nor any Entity method, nor
\* respond, and the error is forwarded to next.
C8_FailedCheckStops ==
    CheckFailed =>
        /\ \A c \in RequestCalls : c.fn \in {"authenticate", "validate", "next"}
        /\ pc = "done" => calls[Len(calls)].outcome = "error"

\* the error a check throws in this model (see Check)
Thrown(fn, status) == Err("failed", "why", status, fn)

\* the index of the call of fn in calls, 0 when there is none
IndexOf(fn) ==
    IF \E i \in 1..Len(calls) : calls[i].fn = fn
    THEN CHOOSE i \in 1..Len(calls) : calls[i].fn = fn
    ELSE 0

\* the error passed to next, NoError before next is called
Forwarded == IF pc = "done" THEN calls[Len(calls)].error ELSE NoError

\* C9: authenticate is called before validate and validate before the endpoint
\* function; validate is not called when authenticate threw; a statusless
\* error thrown by authenticate reaches next with status 401, one thrown by
\* validate with status 400, both with the message and details thrown; an error
\* that carries a status reaches next as it was thrown.
C9_CheckOrderAndStatus ==
    LET a == IndexOf("authenticate")
        v == IndexOf("validate")
        e == IndexOf("endpointFunction")
    IN  /\ (a # 0 /\ v # 0) => a < v
        /\ (a # 0 /\ e # 0) => a < e
        /\ (v # 0 /\ e # 0) => v < e
        /\ (a # 0 /\ calls[a].outcome \in {"throws", "throwsWithStatus"}) => v = 0 /\ e = 0
        /\ (v # 0 /\ calls[v].outcome \in {"throws", "throwsWithStatus"}) => e = 0
        /\ pc = "done" =>
              /\ (a # 0 /\ calls[a].outcome = "throws") =>
                    /\ Forwarded.status = 401
                    /\ Forwarded.message = Thrown("authenticate", 0).message
                    /\ Forwarded.details = Thrown("authenticate", 0).details
              /\ (v # 0 /\ calls[v].outcome = "throws") =>
                    /\ Forwarded.status = 400
                    /\ Forwarded.message = Thrown("validate", 0).message
                    /\ Forwarded.details = Thrown("validate", 0).details
              /\ (a # 0 /\ calls[a].outcome = "throwsWithStatus") =>
                    Forwarded = Thrown("authenticate", 403)
              /\ (v # 0 /\ calls[v].outcome = "throwsWithStatus") =>
                    Forwarded = Thrown("validate", 403)

\* C9's case: validate threw an error without a status after authenticate
\* returned, and next has received it
C9_Witness ==
    /\ pc = "done"
    /\ IndexOf("authenticate") # 0
    /\ IndexOf("validate") # 0
    /\ calls[IndexOf("validate")].outcome = "throws"
    /\ Forwarded.status = 400

\* the calls that are handed a candidate record
CandidateCalls == {"assertValid", "replaceOne", "updateOne"}

\* the record findById returned for the request's id
StoredEntity == FindById(Get(request.urlParams, "entityId"))

\* in the candidates of the calls cs, every read-only property outside `forced`
\* has the value it has in `existing`, or is absent if absent there
ReadOnlyKept(cs, existing, forced) ==
    \A c \in cs :
        c.fn \in CandidateCalls =>
            \A f \in ReadOnly \ forced : Get(c.arg, f) = Get(existing, f)

C7_PatchLeavesExisting ==
    (route.endpoint = "patchOne" /\ request.body.kind = "array") =>
        /\ (\E c \in MainCalls : c.fn = "resetReadOnly") => local.existingEntity = StoredEntity
        /\ ReadOnlyKept({c \in MainCalls : c.fn = "updateOne"}, StoredEntity,
                        DOMAIN local.setProps)
        /\ \A c \in MainCalls :
              c.fn = "updateOne" =>
                  Get(c.arg, "name") = Get(ApplyPatch(StoredEntity, request.body.operations).newDocument, "name")

\* C10: in putOne and patchOne the id of the candidate passed to assertValid and
\* to replaceOne / updateOne is urlParams.entityId, whatever id the body, the
\* patched document or the result of set(request) has.
C10_IdFromUrl ==
    route.endpoint \in {"putOne", "patchOne"} =>
        \A c \in MainCalls :
            c.fn \in CandidateCalls => Get(c.arg, "id") = Get(request.urlParams, "entityId")

\* C10's case: a JSON-Patch that replaces /id, with set(request) naming an id
\* too, has reached updateOne
C10_Witness ==
    /\ route.endpoint = "patchOne"
    /\ request.body.kind = "array"
    /\ Get(local.patchedEntity, "id") = "b"
    /\ Get(local.setProps, "id") = "c"
    /\ \E c \in MainCalls : c.fn = "updateOne" /\ c.outcome = "resolves"

\* C11: in postOne, putOne, patchOne and patchMany the candidate passed to
\* assertValid and to createOne / replaceOne / updateOne has neither the key
\* _embedded nor the key _links, and no key whose value is undefined, whatever
\* the body and the result of set(request) contain.
C11_CandidateStripped ==
    \A c \in RequestCalls :
        c.fn \in CandidateCalls \cup {"createOne"} =>
            /\ "_embedded" \notin DOMAIN c.arg
            /\ "_links" \notin DOMAIN c.arg
            /\ \A k \in DOMAIN c.arg : c.arg[k] # Undefined

\* C11's case: a create whose body has _links and whose set(request) result has
\* an undefined value has reached createOne
C11_Witness ==
    /\ route.endpoint = "postOne"
    /\ "_links" \in DOMAIN request.body.object
    /\ \E k \in DOMAIN local.setProps : local.setProps[k] = Undefined
    /\ \E c \in MainCalls : c.fn = "createOne" /\ c.outcome = "resolves"

\* the body a call of respond sent
ResponseBody(c) ==
    IF c.outcome = "array" THEN BareArray(c.list)
    ELSE PlainObject([k \in DOMAIN c.arg \ {"_links"} |-> c.arg[k]],
                     IF "_links" \in DOMAIN c.arg THEN <<c.arg["_links"]>> ELSE <<>>)

\* C12: when the Entity container has no exportOne / exportMany, the body of
\* the 201 response of a create is the created record shaped by exportHAL (it
\* has _links.self.href ending in /<pluralName>/<id>), and the body of the
\* response of getMany is exportHAL's collection envelope of the records found,
\* its count their number.
C12_DefaultShaperApplied ==
    ~route.exportOne =>
        \A c \in MainCalls :
            c.fn = "respond" =>
                /\ route.endpoint = "postOne" =>
                      ResponseBody(c) = ExportHALOne(BaseUrl, PluralName, local.entity)
                /\ route.endpoint = "getMany" =>
                      ResponseBody(c) = ExportHALMany(BaseUrl, PluralName, local.existingEntities)

\* the calls of Entity.find the request has made
FindCalls == {c \in MainCalls : c.fn = "find"}

\* C13: in getMany the limit passed to find is min(parseInt(query.limit), 500)
\* when query.limit is given (the key has a value, other than the empty string)
\* and 25 when it is not; it is never a number above 500; limit=9999 gives 500.
C13_LimitCapped ==
    route.endpoint = "getMany" =>
        \A c \in FindCalls :
            LET given == "limit" \in DOMAIN request.query
                            /\ request.query["limit"] \notin {NoValue, <<>>}
            IN  /\ c.options.given
                /\ c.options.limit = IF given
                                     THEN MathMin(ParseInt(request.query["limit"]), Num(500))
                                     ELSE Num(25)
                /\ ~c.options.limit.nan => c.options.limit.value <= 500
                /\ (given /\ request.query["limit"] = <<"9", "9", "9", "9">>)
                      => c.options.limit = Num(500)

\* C13's case: getMany asked for limit=9999 has called find with limit 500
C13_Witness ==
    /\ route.endpoint = "getMany"
    /\ QueryValue(request.query, "limit") = <<"9", "9", "9", "9">>
    /\ \E c \in FindCalls : c.options.limit = Num(500)

\* the sort option of find call c is `direction` on `field` when query.sort is
\* given, and ascending on `byDefault` when it is not
SortOption(c, byDefault) ==
    LET sort == QueryValue(request.query, "sort")
    IN  c.options.sort =
            IF sort \in {NoValue, <<>>} THEN [field |-> byDefault, direction |-> 1]
            ELSE IF Head(sort) = "-" THEN [field |-> Tail(sort), direction |-> -1]
            ELSE [field |-> sort, direction |-> 1]

Overridden(k) ==
    \E c \in MainCalls : c.fn = "query" /\ c.outcome = "returns" /\ k \in DOMAIN c.filter

\* the query value v has the form /pattern/flags, flags any sequence of flag letters
DelimitedPattern(v) ==
    /\ v # NoValue
    /\ LastSlash(v) >= 2
    /\ v[1] = "/"
    /\ \A i \in (LastSlash(v) + 1)..Len(v) : v[i] \in {"g", "i", "m", "u", "y"}

\* q does not replace the translation of the other keys
Translated == QueryValue(request.query, "q") \in {NoValue, <<>>}

\* C15: for a query value /pattern/flags, flags zero or more of g, i, m, u, y,
\* the filter passed to find has for that key { $in: [RegExp] } with the
\* RegExp compiled from pattern with exactly the flags of the query value.
C15_PatternFlagsKept ==
    \A c \in FindCalls :
        \A k \in DOMAIN request.query \ {"limit", "offset", "sort", "q"} :
            LET v == request.query[k]
            IN  (Translated /\ ~Overridden(k) /\ DelimitedPattern(v)) =>
                    /\ k \in DOMAIN c.filter
                    /\ c.filter[k].kind = "$in"
                    /\ c.filter[k].chars = SubSeq(v, 2, LastSlash(v) - 1)
                    /\ c.filter[k].flags = SubSeq(v, LastSlash(v) + 1, Len(v))

\* the keys the endpoint's query(request) returned conditions for
QueryKeys ==
    UNION {DOMAIN c.filter : c \in {x \in MainCalls : x.fn = "query" /\ x.outcome = "returns"}}

\* C16: when q is unset (it has no value, or the empty string), the filter
\* passed to find has none of the keys limit, offset, sort and q, and has a
\* condition for exactly the other query keys whose value is not undefined;
\* when q is present, the filter is the parsed value of q and no other query
\* key contributes to it.  (Keys the endpoint's query(request) returns aside.)
C16_FilterKeys ==
    \A c \in FindCalls :
        LET q == QueryValue(request.query, "q")
            translated == DOMAIN c.filter \ QueryKeys
        IN  IF q \in {NoValue, <<>>}
            THEN /\ DOMAIN c.filter \cap {"limit", "offset", "sort", "q"} = {}
                 /\ translated =
                        {k \in DOMAIN request.query \ {"limit", "offset", "sort", "q"} :
                            request.query[k] # NoValue} \ QueryKeys
            ELSE /\ ~ParseJSON(q).threw
                 /\ translated = DOMAIN ParseJSON(q).value \ QueryKeys
                 /\ \A k \in translated : c.filter[k] = ParseJSON(q).value[k]
                 /\ q = <<"{", "\"", "n", "\"", ":", "\"", "a", "\"", "}">> => translated = {"n"}

\* C16's case: find has been called for a query with both q and a field
C16_Witness ==
    /\ QueryValue(request.query, "q") = <<"{", "\"", "n", "\"", ":", "\"", "a", "\"", "}">>
    /\ QueryValue(request.query, "name") = <<"a">>
    /\ \E c \in FindCalls : DOMAIN c.filter = {"n"}

\* C17: for a non-reserved key k with string value v, the condition for k in the
\* filter passed to find is the boolean true when v is 'true', the boolean
\* false when v is 'false', { $exists: false } when v is 'undefined', and,
\* when v is none of these and not of the form /pattern/flags, the string v.
C17_ValueConditions ==
    \A c \in FindCalls :
        \A k \in DOMAIN request.query \ {"limit", "offset", "sort", "q"} :
            LET v == request.query[k]
            IN  (Translated /\ ~Overridden(k) /\ v # NoValue) =>
                    /\ k \in DOMAIN c.filter
                    /\ v = <<"t", "r", "u", "e">> =>
                          c.filter[k].kind = "boolean" /\ c.filter[k].bool
                    /\ v = <<"f", "a", "l", "s", "e">> =>
                          c.filter[k].kind = "boolean" /\ ~c.filter[k].bool
                    /\ v = <<"u", "n", "d", "e", "f", "i", "n", "e", "d">> =>
                          c.filter[k].kind = "$exists" /\ ~c.filter[k].bool
                    /\ (/\ v \notin {<<"t", "r", "u", "e">>, <<"f", "a", "l", "s", "e">>,
                                       <<"u", "n", "d", "e", "f", "i", "n", "e", "d">>}
                        /\ ~DelimitedPattern(v)) =>
                          c.filter[k].kind = "value" /\ c.filter[k].chars = v

\* C17's case: find has been called for a query with name=true
C17_Witness ==
    /\ QueryValue(request.query, "name") = <<"t", "r", "u", "e">>
    /\ Translated
    /\ \E c \in FindCalls : "name" \in DOMAIN c.filter /\ c.filter["name"].kind = "boolean"

\* C18: in getMany and patchMany the filter passed to find is the translation
\* of request.query overlaid with the result of the endpoint's query(request):
\* every key of the endpoint's result is in the filter with the endpoint's
\* value, and the other translated keys are kept; also when query(request)
\* delivers its result through a promise.
C18_EndpointQueryOverlaid ==
    \A c \in FindCalls :
        \A x \in {y \in MainCalls : y.fn = "query"} :
            /\ \A k \in DOMAIN x.filter : k \in DOMAIN c.filter /\ c.filter[k] = x.filter[k]
            /\ \A k \in DOMAIN FilterConditions(request.query).value \ DOMAIN x.filter :
                  k \in DOMAIN c.filter /\ c.filter[k] = FilterConditions(request.query).value[k]

\* a response without a body
NoBody ==
    [kind |-> "none", data |-> EmptyObject, href |-> <<>>, count |-> 0, key |-> "", items |-> <<>>]

\* find has resolved to an empty sequence
NothingMatched == \E c \in FindCalls : c.outcome = "resolves" /\ c.list = <<>>

\* C19: in patchMany, when find returns an empty sequence the operation
\* responds with status 200 and no body, and none of set, resetReadOnly,
\* assertValid, shouldUpdate, updateOne and didUpdate is called.
C19_NoMatchStops ==
    (route.endpoint = "patchMany" /\ NothingMatched) =>
        /\ \A c \in RequestCalls :
              /\ c.fn \notin {"set", "resetReadOnly", "assertValid", "shouldUpdate",
                              "updateOne", "didUpdate"}
              /\ c.fn = "respond" => c.status = 200 /\ ResponseBody(c) = NoBody
        /\ pc = "done" => \E c \in MainCalls : c.fn = "respond"

\* assertValid has thrown for one of the matched records
SomeRecordInvalid == \E c \in TaskCalls : c.fn = "assertValid" /\ c.outcome = "throws"

\* C20: in patchMany, when assertValid fails for one matched record, no
\* response is sent, no didUpdate is called, updateOne is called for none of
\* the matched records, and the error is passed to next exactly once.
C20_InvalidAbortsBatch ==
    (route.endpoint = "patchMany" /\ SomeRecordInvalid) =>
        /\ \A c \in RequestCalls : c.fn \notin {"respond", "didUpdate", "updateOne"}
        /\ pc = "done" =>
              /\ Cardinality({i \in 1..Len(calls) : calls[i].fn = "next"}) = 1
              /\ calls[Len(calls)].fn = "next" /\ calls[Len(calls)].outcome = "error"

\* the keys of a candidate that neither the read-only reconciliation nor the
\* forced values decide
PatchedKeys(candidate, patched) ==
    (DOMAIN candidate \cup DOMAIN patched)
        \ (ReadOnly \cup DOMAIN local.setProps \cup {"id", "_embedded", "_links"})

\* C21: in patchMany with a JSON-Patch array body, the candidate of each
\* matched record is built from the document obtained by applying the patch to
\* that record, as patchOne builds it: outside the read-only and the forced
\* properties, the candidate has the properties of the patched document and
\* no others.
C21_PatchManyAppliesPatch ==
    (route.endpoint = "patchMany" /\ request.body.kind = "array") =>
        \A t \in 1..Len(tasks) :
            LET applied == ApplyPatch(tasks[t].existingEntity, request.body.operations)
            IN  ~applied.threw =>
                    \A i \in 1..Len(tasks[t].calls) :
                        LET c == tasks[t].calls[i]
                        IN  c.fn \in {"assertValid", "updateOne"} =>
                                \A k \in PatchedKeys(c.arg, applied.newDocument) :
                                    Get(c.arg, k) = Get(applied.newDocument, k)


\* the url without its trailing slash
WithoutTrailingSlash(url) ==
    IF LastCharacter(url) = "/" THEN SubSeq(url, 1, Len(url) - 1) ELSE url

\* C22: exportHAL(baseUrl, Entity, data), for a baseUrl with or without a
\* trailing slash: given an array it returns the envelope whose href is the
\* base, '/', the plural name (or 'data'), '/', whose count is the length of
\* the array and whose _embedded binds that name to the array; given a single
\* record of an Entity with a pluralName it returns the record's own fields
\* with the href base, '/', pluralName, '/', data.id.
C22_ExportHALShape ==
    pc = "exported" =>
        LET base == WithoutTrailingSlash(hal.url)
            name == PluralNameOrData(hal.pluralName)
            data == hal.data
            returned == hal.returned
        IN  IF data.kind = "array"
            THEN returned = Envelope(base \o <<"/", name, "/">>, Len(data.records), name,
                                     data.records)
            ELSE (hal.pluralName # Undefined /\ "id" \in DOMAIN data.record) =>
                     /\ returned.kind = "object"
                     /\ \A k \in DOMAIN data.record \ {"_links"} :
                            Get(returned.data, k) = data.record[k]
                     /\ returned.href
                            = base \o <<"/", hal.pluralName, "/", data.record["id"]>>

\* getOne's findById resolved with null
GetOneFoundNothing ==
    /\ route.endpoint = "getOne"
    /\ \E c \in MainCalls :
          c.fn = "findById" /\ c.outcome = "resolves" /\ ~IsObject(FindById(c.arg["id"]))

\* C23: getOne never calls find or a mutating storage method; once its
\* findById has resolved it throws nothing, so no 404 of its own reaches next;
\* when findById resolved with null it calls exportOne, if the Entity has
\* one, with null, and then respond with status 200 and that null.
C23_GetOneNever404 ==
    route.endpoint = "getOne" =>
        /\ \A c \in RequestCalls : c.fn \notin Mutations \cup {"find"}
        /\ (\E c \in MainCalls : c.fn = "findById" /\ c.outcome = "resolves") =>
               error = NoError /\ Forwarded = NoError
        /\ (GetOneFoundNothing /\ pc \in {"return", "done"}) =>
               LET i == IndexOf("respond")
               IN  /\ i > 1
                   /\ calls[i].status = 200
                   /\ calls[i].arg = Null
                   /\ IF route.exportOne
                      THEN calls[i - 1] = Call("exportOne", Null)
                      ELSE calls[i - 1].fn = "findById"

C23_Witness ==
    /\ GetOneFoundNothing
    /\ route.exportOne
    /\ pc = "done"
    /\ \E c \in MainCalls : c.fn = "respond" /\ c.status = 200

\* C24: in postOne the object passed to assertValid is the candidate, with
\* the placeholder id added when the candidate has no id of its own; the
\* object passed to shouldCreate and to createOne is the candidate itself: it
\* never has the placeholder id, and it has an id only when the body or the
\* result of set(request) has that id.
C24_PlaceholderIdOnlyValidated ==
    route.endpoint = "postOne" =>
        \A c \in MainCalls :
            /\ c.fn = "assertValid" =>
                   IF "id" \in DOMAIN local.props
                   THEN c.arg = local.props
                   ELSE c.arg = Spread(local.props, FakeId)
            /\ c.fn \in {"shouldCreate", "createOne"} =>
                   /\ c.arg = local.props
                   /\ Get(c.arg, "id") # FakeId["id"]
                   /\ "id" \in DOMAIN c.arg =>
                          c.arg["id"] \in {Get(request.body.object, "id"),
                                           Get(local.setProps, "id")}

\* C24's case: a create whose body and set(request) result have no id has
\* been validated with the placeholder id, passed its guard and reached createOne
C24_Witness ==
    /\ route.endpoint = "postOne"
    /\ "id" \notin DOMAIN request.body.object \cup DOMAIN local.setProps
    /\ \E c \in MainCalls : c.fn = "assertValid" /\ Get(c.arg, "id") = FakeId["id"]
    /\ \E c \in MainCalls : c.fn = "shouldCreate" /\ c.outcome = "resolves"
    /\ \E c \in MainCalls : c.fn = "createOne" /\ c.outcome = "resolves"

\* the endpoints that mutate storage
Mutating == {"postOne", "putOne", "patchOne", "patchMany", "deleteOne"}

\* the errors of the request's storage calls that failed
FailedStorageErrors ==
    {StorageError(c.fn) : c \in {m \in MainCalls : m.fn \in Mutations \cup {"findById", "find"}
                                                     /\ m.outcome = "rejects"}}
        \cup {tasks[t].error : t \in {u \in 1..Len(tasks) :
                                         /\ tasks[u].pc = "rejected"
                                         /\ tasks[u].calls[Len(tasks[u].calls)].fn = "updateOne"
                                         /\ tasks[u].calls[Len(tasks[u].calls)].outcome = "rejects"}}

\* the errors of patchMany's callbacks that rejected
RejectedTaskErrors == {tasks[t].error : t \in {u \in 1..Len(tasks) : tasks[u].pc = "rejected"}}

\* every call of respond with the success status comes after the request's
\* mutating storage call resolved, in patchMany after updateOne resolved for
\* every record found
RespondedAfterMutation ==
    \A i \in 1..Len(calls) :
        (calls[i].fn = "respond" /\ calls[i].status = SuccessStatus) =>
            IF route.endpoint = "patchMany"
            THEN MutationSucceeded
            ELSE \E j \in 1..(i - 1) : calls[j].fn \in Mutations /\ calls[j].outcome = "resolves"

Count(fn) == Cardinality({i \in 1..Len(calls) : calls[i].fn = fn})

\* next is called at most once, as the last call of the middleware, with no
\* argument when nothing was caught and with the error caught otherwise, and
\* respond is called at most once
NextAtMostOnce ==
    /\ Count("next") <= 1
    /\ Count("respond") <= 1
    /\ Count("next") = 1 <=> pc = "done"
    /\ pc = "done" =>
           LET c == calls[Len(calls)]
           IN  /\ c.fn = "next"
               /\ c.outcome = "" <=> error = NoError
               /\ c.outcome = "error" <=> error # NoError
               /\ c.error = error

\* C26: when the calls the request awaits all end (and next itself returns),
\* the middleware eventually calls next, and calls it exactly once: with no
\* argument if and only if authenticate, validate and the endpoint function
\* ended without a throw, and with the error caught otherwise; respond is
\* called at most once per request.
C26_NextExactlyOnce == [] NextAtMostOnce /\ <>[](Count("next") = 1)

\* C26's case: a request whose endpoint function responded and whose did*
\* hook then threw has ended, next called once with the error
C26_Witness ==
    /\ pc = "done"
    /\ Count("respond") = 1
    /\ Count("next") = 1
    /\ error # NoError
    /\ calls[Len(calls)].error = error
====
